---- MODULE Spec2Model ----
(***************************************************************************)
(* A model of generate.py: the tree builder (collect_files), the URL and   *)
(* path helpers (file_url, get_output), the three renderers                *)
(* (HtmlGenerator, JsonGenerator, TxtGenerator) and the script body.       *)
(*                                                                         *)
(* Strings are sequences of one-character strings, so that split, join and *)
(* replace are computed character by character.  The two fixed file names  *)
(* "index.html" and "index.json" (and the text index name) hold no         *)
(* separator and are kept as one symbol each.                              *)
(*                                                                         *)
(* A directory tree  ([], defaultdict(emptydir))  is a sequence of nodes   *)
(* [path, files] in creation order, the root first.  A node's path is the  *)
(* sequence of dictionary keys that leads to it from the root; as a dict   *)
(* holds a key once, a path names one node.  The children of a node, in    *)
(* the dict's insertion order, are the nodes one component longer, in      *)
(* sequence order.                                                         *)
(*                                                                         *)
(* A file entry keeps name and size, and id: the position of its record in *)
(* the listing, which stands for the identity of the dict object.  etag,   *)
(* mdate and storage are copied through by every function and read by no   *)
(* branch; they are left out.                                              *)
(***************************************************************************)
EXTENDS Integers, Sequences, FiniteSets, TLC

VARIABLES
    pc,        \* where the script (or the caller of the renderers) stands
    config,    \* the parsed configuration
    listed,    \* the records the lister yielded, in order
    tree,      \* the directory tree
    stderr,    \* the lines on the error stream
    status,    \* the exit status, -1 while the process runs
    rendered,  \* the output targets whose run has returned, in order
    call,      \* the renderer call made last
    written,   \* the files that call wrote, in order
    url        \* the arguments and the result of a file_url call

vars == <<pc, config, listed, tree, stderr, status, rendered, call, written, url>>

(***************************************************************************)
(* Bounds of the model.                                                    *)
(***************************************************************************)
MaxRecords == 3

MaxUrlLen == 2

\* Object keys the lister yields: plain, nested, twice nested, and with an
\* empty leading, trailing and inner component.
Keys ==
    { <<"a">>, <<"b">>,
      <<"a", "/", "b">>,
      <<"a", "/", "b", "/", "c">>,
      <<"/", "a">>,
      <<"a", "/">>,
      <<"a", "/", "/", "b">> }

Sizes == {0, 1}

\* f.name of a record without a key.
None == <<"None">>

Records == [name : Keys, size : Sizes] \cup { [name |-> None, size |-> 0] }

BoundedSeq(S, n) == UNION { [1..k -> S] : k \in 0..n }

(***************************************************************************)
(* Strings.                                                                *)
(***************************************************************************)
\* Code points of the characters used, for Python's string comparison.
Ord(c) ==
    CASE c = "/" -> 47
      [] c = "a" -> 97
      [] c = "b" -> 98
      [] c = "c" -> 99
      [] OTHER   -> 105

RECURSIVE StrLess(_, _)
\* s < t on Python strings: lexicographic by code point, a prefix first.
StrLess(s, t) ==
    IF Len(t) = 0 THEN FALSE
    ELSE IF Len(s) = 0 THEN TRUE
    ELSE IF Ord(Head(s)) # Ord(Head(t)) THEN Ord(Head(s)) < Ord(Head(t))
    ELSE StrLess(Tail(s), Tail(t))

Reverse(s) == [i \in 1..Len(s) |-> s[Len(s) + 1 - i]]

RECURSIVE Split(_, _)
\* str.split(sep) for a one-character sep: one more component than sep occurs.
Split(s, sep) ==
    IF \A i \in 1..Len(s) : s[i] # sep THEN <<s>>
    ELSE LET i == CHOOSE k \in 1..Len(s) :
                      s[k] = sep /\ \A j \in 1..(k - 1) : s[j] # sep
         IN  <<SubSeq(s, 1, i - 1)>> \o Split(SubSeq(s, i + 1, Len(s)), sep)

RECURSIVE Replace2(_)
\* str.replace('//', '/'): one pass, left to right, over non-overlapping
\* occurrences.
Replace2(s) ==
    IF Len(s) < 2 THEN s
    ELSE IF s[1] = "/" /\ s[2] = "/"
         THEN <<"/">> \o Replace2(SubSeq(s, 3, Len(s)))
         ELSE <<s[1]>> \o Replace2(Tail(s))

\* str.replace(old, new) for one-character old and new.
ReplaceChar(s, old, new) == [i \in 1..Len(s) |-> IF s[i] = old THEN new ELSE s[i]]

\* os.sep of the platform (posix).
OsSep == "/"

\* os.path.join(a, b) (posixpath): an absolute b replaces a; else b follows a,
\* after a separator unless a is empty or ends in one.
PathJoin(a, b) ==
    IF Len(b) > 0 /\ b[1] = OsSep THEN b
    ELSE IF Len(a) = 0 \/ a[Len(a)] = OsSep THEN a \o b
    ELSE a \o <<OsSep>> \o b

\* '/'.join(parts)
RECURSIVE SlashJoin(_)
SlashJoin(parts) ==
    IF Len(parts) = 0 THEN <<>>
    ELSE IF Len(parts) = 1 THEN parts[1]
    ELSE parts[1] \o <<"/">> \o SlashJoin(Tail(parts))

file_url(base, directory, filename) ==
    LET u == IF Len(directory) > 0
             THEN SlashJoin(<<base, ReplaceChar(directory, OsSep, "/"), filename>>)
             ELSE SlashJoin(<<base, filename>>)
    IN  Replace2(u)

(***************************************************************************)
(* The tree builder.                                                       *)
(***************************************************************************)
emptydir == << [path |-> <<>>, files |-> <<>>] >>

HasNode(t, p) == \E i \in 1..Len(t) : t[i].path = p

Node(t, p) == t[CHOOSE i \in 1..Len(t) : t[i].path = p]

\* currdir[1][component] on the defaultdict: the child, created when absent.
ChildLookup(t, p, component) ==
    IF HasNode(t, Append(p, component)) THEN t
    ELSE Append(t, [path |-> Append(p, component), files |-> <<>>])

\* A builder that keeps one entry per name: a record whose name the node
\* already holds replaces that entry.
AppendFileCoalescing(t, p, entry) ==
    [i \in 1..Len(t) |->
        IF t[i].path # p THEN t[i]
        ELSE IF \E j \in 1..Len(t[i].files) : t[i].files[j].name = entry.name
        THEN [t[i] EXCEPT !.files =
                 [j \in 1..Len(@) |-> IF @[j].name = entry.name THEN entry ELSE @[j]]]
        ELSE [t[i] EXCEPT !.files = Append(@, entry)]]

\* currdir[0].append(entry)
AppendFile(t, p, entry) ==
    [i \in 1..Len(t) |->
        IF t[i].path = p THEN [t[i] EXCEPT !.files = Append(@, entry)] ELSE t[i]]

PathSep == "/"

RECURSIVE Walk(_, _, _, _)
\* The  while True  loop of collect_files: path is the reversed component
\* list, popped from its end.
Walk(t, path, currdir, entry) ==
    LET component == path[Len(path)]
        rest      == SubSeq(path, 1, Len(path) - 1)
    IN  IF Len(rest) = 0
        THEN AppendFile(t, currdir, [entry EXCEPT !.name = component])
        ELSE Walk(ChildLookup(t, currdir, component), rest,
                  Append(currdir, component), entry)

\* A builder that forgets to reverse the component list before popping.
CollectOneUnreversed(t, f, i) ==
    IF f.name = None THEN t
    ELSE Walk(t, Split(f.name, PathSep), <<>>,
              [id |-> i, name |-> <<>>, size |-> f.size])

\* One pass of the  for f in iterator  loop, f the i-th record.
CollectOne(t, f, i) ==
    IF f.name = None THEN t
    ELSE Walk(t, Reverse(Split(f.name, PathSep)), <<>>,
              [id |-> i, name |-> <<>>, size |-> f.size])

RECURSIVE CollectFrom(_, _, _)
CollectFrom(t, iterator, i) ==
    IF i > Len(iterator) THEN t
    ELSE CollectFrom(CollectOne(t, iterator[i], i), iterator, i + 1)

collect_files(iterator) == CollectFrom(emptydir, iterator, 1)

(***************************************************************************)
(* Reading the tree.                                                       *)
(***************************************************************************)
\* The keys of a node's children mapping, in insertion order.
ChildNames(t, p) ==
    LET IsChild(n) == /\ Len(n.path) = Len(p) + 1
                      /\ SubSeq(n.path, 1, Len(p)) = p
        kids == SelectSeq(t, IsChild)
    IN  [i \in 1..Len(kids) |-> kids[i].path[Len(p) + 1]]

\* x[key] < y[key] for two file entries.
KeyLess(key, x, y) ==
    IF key = "name" THEN StrLess(x.name, y.name) ELSE x.size < y.size

\* One step of a stable ascending sort: e goes after every element not
\* greater than it.
InsertSorted(acc, e, key) ==
    LET pos == Cardinality({ i \in 1..Len(acc) : ~KeyLess(key, e, acc[i]) })
    IN  SubSeq(acc, 1, pos) \o <<e>> \o SubSeq(acc, pos + 1, Len(acc))

RECURSIVE SortedFrom(_, _, _, _)
SortedFrom(acc, s, i, key) ==
    IF i > Len(s) THEN acc
    ELSE SortedFrom(InsertSorted(acc, s[i], key), s, i + 1, key)

\* sorted(files, key=lambda x: x[key]): a new list, stable, ascending.
sorted(files, key) == SortedFrom(<<>>, files, 1, key)

\* A renderer that sorts the node's own list: files.sort(key=...).
FilesAfterSortInPlace(files, key) == sorted(files, key)

\* The argument of sorted() after the call: sorted() copies, the list the
\* node holds is left as it was.
FilesAfterSorted(files, key) == files

\* sorted(directories.items(), key=lambda x: x[0]): the child names ascending
\* (a dict holds each once).
SortedNames(names) ==
    LET AsEntries == [i \in 1..Len(names) |-> [name |-> names[i], size |-> 0]]
        s == sorted(AsEntries, "name")
    IN  [i \in 1..Len(s) |-> s[i].name]

SetFiles(t, p, files) ==
    [i \in 1..Len(t) |-> IF t[i].path = p THEN [t[i] EXCEPT !.files = files] ELSE t[i]]

(***************************************************************************)
(* Output paths and the HTML renderer.                                     *)
(***************************************************************************)
\* args.output: os.path.join(currp, "out/")
args_output == <<"/", "o", "u", "t", "/">>

\* config['bucket']['base_url'], by default ''
base_url == <<>>

IndexHtml == <<"index.html">>

IndexJson == <<"index.json">>

IndexTxt == <<"index.txt">>

\* get_output(directory, fname): (output_dir, output_file); makedirs creates
\* the directory and swallows every error.
get_output(directory, fname) ==
    LET output_dir == PathJoin(args_output, directory)
    IN  [dir |-> output_dir, file |-> PathJoin(output_dir, fname)]

\* The options HtmlGenerator.__init__ reads from its section.
HtmlConfigs ==
    [list_zero_sized : BOOLEAN, file_sort_key : {"name", "size"},
     reverse_files : BOOLEAN]

\* HtmlGenerator.skip
skip(h, size) == size = 0 /\ ~h.list_zero_sized

\* A renderer that sorts descending when asked to reverse:
\* sorted(files, key=..., reverse=True), which keeps equal keys in arrival
\* order.
OrderedFilesDescending(h, files) ==
    IF h.reverse_files
    THEN Reverse(sorted(Reverse(files), h.file_sort_key))
    ELSE sorted(files, h.file_sort_key)

\* fs: the files sorted, then reversed as a whole when reverse_files is set.
OrderedFiles(h, files) ==
    LET s == sorted(files, h.file_sort_key)
    IN  IF h.reverse_files THEN Reverse(s) ELSE s

RECURSIVE SumSizes(_)
SumSizes(files) ==
    IF Len(files) = 0 THEN 0 ELSE Head(files).size + SumSizes(Tail(files))

\* A renderer that returns the bytes in the node instead of the file count.
FileCountBySize(files) == SumSizes(files)

\* return len(files)
FileCount(files) == Len(files)

\* The file rows of a page: fs in order, the skipped entries left out.
FileRows(h, files, directory) ==
    LET fs == OrderedFiles(h, files)
        Listed(f) == ~skip(h, f.size)
        kept == SelectSeq(fs, Listed)
    IN  [i \in 1..Len(kept) |->
            [kind |-> "file", name |-> kept[i].name,
             link |-> file_url(base_url, directory, kept[i].name),
             size |-> kept[i].size, id |-> kept[i].id]]

RECURSIVE HtmlRun(_, _, _, _)
RECURSIVE HtmlDirs(_, _, _, _, _, _)

\* The  for dirname, children in sorted(directories.items())  loop of run, from
\* the i-th name on: the rows it appends, the files the recursive runs write
\* and the tree they leave.
HtmlDirs(h, t, p, directory, names, i) ==
    IF i > Len(names) THEN [rows |-> <<>>, writes |-> <<>>, tree |-> t]
    ELSE LET dirname == names[i]
             path    == PathJoin(directory, dirname)
             child   == HtmlRun(h, t, Append(p, dirname), path)
             rest    == HtmlDirs(h, child.tree, p, directory, names, i + 1)
             row     == IF skip(h, child.count) THEN <<>>
                        ELSE << [kind |-> "dir", name |-> dirname \o <<"/">>,
                                 link |-> file_url(base_url, path, IndexHtml),
                                 size |-> child.count] >>
         IN  [rows |-> row \o rest.rows,
              writes |-> child.writes \o rest.writes,
              tree |-> rest.tree]

\* HtmlGenerator.run(tree, directory) on the node at p: the files written, in
\* order (node: the node whose page it is), the count returned and the tree
\* as the call leaves it.
HtmlRun(h, t, p, directory) ==
    LET out   == get_output(directory, IndexHtml)
        dirs  == HtmlDirs(h, t, p, directory, SortedNames(ChildNames(t, p)), 1)
        files == Node(dirs.tree, p).files
        page  == [file |-> out.file, node |-> p,
                  rows |-> dirs.rows \o FileRows(h, files, directory)]
    IN  [writes |-> Append(dirs.writes, page),
         count  |-> FileCount(files),
         tree   |-> SetFiles(dirs.tree, p, FilesAfterSorted(files, h.file_sort_key))]

(***************************************************************************)
(* The JSON and the text renderer.                                         *)
(***************************************************************************)
RECURSIVE JsonRun(_, _, _)
RECURSIVE JsonDirs(_, _, _, _, _)

JsonDirs(t, p, d, names, i) ==
    IF i > Len(names) THEN <<>>
    ELSE LET dirname == names[i]
             path    == PathJoin(d, dirname)
         IN  << [name |-> dirname,
                 index_link |-> file_url(base_url, path, IndexHtml),
                 children |-> JsonRun(t, Append(p, dirname), path)] >>
             \o JsonDirs(t, p, d, names, i + 1)

\* A JSON renderer that applies the HTML renderer's zero-size filter.
JsonRunSkippingZero(t, p, d) ==
    LET NonZero(f) == f.size # 0
        files == SelectSeq(Node(t, p).files, NonZero)
    IN  [fs |-> [i \in 1..Len(files) |->
                    [name |-> files[i].name,
                     link |-> file_url(base_url, d, files[i].name),
                     size |-> files[i].size]],
         ds |-> JsonDirs(t, p, d, ChildNames(t, p), 1)]

\* JsonGenerator._run(tree, d) on the node at p.
JsonRun(t, p, d) ==
    LET files == Node(t, p).files
    IN  [fs |-> [i \in 1..Len(files) |->
                    [name |-> files[i].name,
                     link |-> file_url(base_url, d, files[i].name),
                     size |-> files[i].size]],
         ds |-> JsonDirs(t, p, d, ChildNames(t, p), 1)]

\* txtconfig['file_fields'] (mdate is not modelled)
file_fields == <<"path", "size">>

RECURSIVE TxtRun(_, _, _)
RECURSIVE TxtDirs(_, _, _, _, _)

TxtDirs(t, p, directory, names, i) ==
    IF i > Len(names) THEN <<>>
    ELSE TxtRun(t, Append(p, names[i]), PathJoin(directory, names[i]))
         \o TxtDirs(t, p, directory, names, i + 1)

\* TxtGenerator._run(tree, writer, directory) on the node at p: the rows
\* handed to the writer, in order (id: the entry a row was made from).
TxtRun(t, p, directory) ==
    LET files == Node(t, p).files
        Vals(f) == [name |-> f.name,
                    path |-> file_url(<<>>, directory, f.name),
                    link |-> file_url(base_url, directory, f.name),
                    size |-> f.size]
    IN  [i \in 1..Len(files) |->
            [cells |-> [k \in 1..Len(file_fields) |-> Vals(files[i])[file_fields[k]]],
             id |-> files[i].id]]
        \o TxtDirs(t, p, directory, ChildNames(t, p), 1)

(***************************************************************************)
(* The script body.                                                        *)
(***************************************************************************)
\* The [output] sections of the configuration, in the order of the mapping:
\* each a target name with its type ("" for a section without a type).
OutputConfigs ==
    { <<>>,
      << [name |-> "web", type |-> "html"] >>,
      << [name |-> "api", type |-> "json"], [name |-> "flat", type |-> "txt"] >>,
      << [name |-> "web", type |-> "html"], [name |-> "odd", type |-> "csv"],
         [name |-> "flat", type |-> "txt"] >>,
      << [name |-> "bare", type |-> ""], [name |-> "web", type |-> "html"] >> }

\* The fatal conditions of start-up, by the message panic prints.
StartupFailures ==
    { "No [bucket] is specified in configuration!",
      "Bucket name is not specified!",
      "Region is not specified or is invalid.",
      "Could not open/find bucket!" }

NameErrorTraceback == "NameError: name 'generate_output' is not defined"

UnknownType(name) == "Unknown type for section output." \o name

NoUrl == [base |-> <<>>, directory |-> <<>>, filename |-> <<>>, result |-> <<>>]

NoCall == [type |-> "none"]

Init ==
    /\ pc = "startup"
    /\ config \in [output : OutputConfigs]
    /\ listed = <<>>
    /\ tree = emptydir
    /\ stderr = <<>>
    /\ status = -1
    /\ rendered = <<>>
    /\ call = NoCall
    /\ written = <<>>
    /\ url = NoUrl

\* panic(msg): the message on the error stream, then sys.exit(1).
panic(msg) ==
    /\ stderr' = Append(stderr, msg)
    /\ status' = 1
    /\ pc' = "exit"

\* Configuration and bucket lookup: one of the fatal conditions, or none.
Startup ==
    /\ pc = "startup"
    /\ \/ \E msg \in StartupFailures : panic(msg)
       \/ /\ pc' = "collect"
          /\ UNCHANGED <<stderr, status>>
    /\ UNCHANGED <<config, listed, tree, rendered, call, written, url>>

\* tree = collect_files(bucket.list(prefix=prefix))
CollectFiles ==
    /\ pc = "collect"
    /\ \E iterator \in BoundedSeq(Records, MaxRecords) :
          /\ listed' = iterator
          /\ tree' = collect_files(iterator)
    /\ pc' = "generate_output"
    /\ UNCHANGED <<config, stderr, status, rendered, call, written, url>>

\* generate_output(tree): the name is bound nowhere in the module, so the
\* call raises NameError; uncaught, it prints a traceback to the error
\* stream and the interpreter exits with status 1.
GenerateOutput ==
    /\ pc = "generate_output"
    /\ stderr' = Append(stderr, NameErrorTraceback)
    /\ status' = 1
    /\ pc' = "exit"
    /\ UNCHANGED <<config, listed, tree, rendered, call, written, url>>

\* The types the targets mapping knows.
targets == {"html", "json", "txt"}

\* One pass of the  for name in outputs.keys()  loop: panic on a missing or
\* unknown type, else the renderer's run.  No behaviour gets here: the
\* statement before the loop raises.
OutputTarget ==
    /\ pc = "outputs"
    /\ Len(rendered) < Len(config.output)
    /\ LET section == config.output[Len(rendered) + 1]
       IN  IF section.type \notin targets
           THEN /\ panic(UnknownType(section.name))
                /\ UNCHANGED rendered
           ELSE /\ rendered' = Append(rendered, section.name)
                /\ UNCHANGED <<pc, stderr, status>>
    /\ UNCHANGED <<config, listed, tree, call, written, url>>

\* The end of the script after the loop: exit status 0.
OutputsDone ==
    /\ pc = "outputs"
    /\ Len(rendered) = Len(config.output)
    /\ pc' = "exit"
    /\ status' = 0
    /\ UNCHANGED <<config, listed, tree, stderr, rendered, call, written, url>>

Next == Startup \/ CollectFiles \/ GenerateOutput

Spec == Init /\ [][Next]_vars

(***************************************************************************)
(* The renderers called on a built tree, in any order and any number of    *)
(* times.  During a call and until the caller goes on, written holds the   *)
(* files the call wrote, in order, and call says which call it was.        *)
(***************************************************************************)
InitRender ==
    /\ pc = "built"
    /\ config \in [output : {<<>>}]
    /\ listed \in BoundedSeq(Records, MaxRecords)
    /\ tree = collect_files(listed)
    /\ stderr = <<>>
    /\ status = -1
    /\ rendered = <<>>
    /\ call = NoCall
    /\ written = <<>>
    /\ url = NoUrl

\* HtmlGenerator(htmlconfig).run(tree)
HtmlRender ==
    /\ pc = "built"
    /\ \E h \in HtmlConfigs :
          LET r == HtmlRun(h, tree, <<>>, <<>>)
          IN  /\ written' = r.writes
              /\ tree' = r.tree
              /\ call' = [type |-> "html", cfg |-> h]
    /\ pc' = "returned"
    /\ UNCHANGED <<config, listed, stderr, status, rendered, url>>

\* JsonGenerator(jsonconfig).run(tree)
JsonRender ==
    /\ pc = "built"
    /\ written' = << [file |-> get_output(<<>>, IndexJson).file,
                      doc |-> JsonRun(tree, <<>>, <<>>)] >>
    /\ call' = [type |-> "json"]
    /\ pc' = "returned"
    /\ UNCHANGED <<config, listed, tree, stderr, status, rendered, url>>

\* TxtGenerator(txtconfig).run(tree)
TxtRender ==
    /\ pc = "built"
    /\ written' = << [file |-> get_output(<<>>, IndexTxt).file,
                      rows |-> TxtRun(tree, <<>>, <<>>)] >>
    /\ call' = [type |-> "txt"]
    /\ pc' = "returned"
    /\ UNCHANGED <<config, listed, tree, stderr, status, rendered, url>>

\* The caller goes on to its next call on the same tree.
NextCall ==
    /\ pc = "returned"
    /\ pc' = "built"
    /\ written' = <<>>
    /\ call' = NoCall
    /\ UNCHANGED <<config, listed, tree, stderr, status, rendered, url>>

NextRender == HtmlRender \/ JsonRender \/ TxtRender \/ NextCall

SpecRender == InitRender /\ [][NextRender]_vars

(***************************************************************************)
(* file_url called on any three strings.                                   *)
(***************************************************************************)
UrlStrings == BoundedSeq({"a", "/"}, MaxUrlLen)

InitUrl ==
    /\ pc = "file_url"
    /\ config \in [output : {<<>>}]
    /\ listed = <<>>
    /\ tree = emptydir
    /\ stderr = <<>>
    /\ status = -1
    /\ rendered = <<>>
    /\ call = NoCall
    /\ written = <<>>
    /\ url \in [base : UrlStrings, directory : UrlStrings, filename : UrlStrings,
                result : {<<>>}]

FileUrl ==
    /\ pc = "file_url"
    /\ url' = [url EXCEPT !.result = file_url(url.base, url.directory, url.filename)]
    /\ pc' = "returned"
    /\ UNCHANGED <<config, listed, tree, stderr, status, rendered, call, written>>

NextUrl == FileUrl

SpecUrl == InitUrl /\ [][NextUrl]_vars

(***************************************************************************)
(* Properties.                                                             *)
(***************************************************************************)
RECURSIVE TotalFiles(_)
TotalFiles(t) ==
    IF Len(t) = 0 THEN 0 ELSE Len(Head(t).files) + TotalFiles(Tail(t))

Keyed == { i \in 1..Len(listed) : listed[i].name # None }

NoSep(s) == \A i \in 1..Len(s) : s[i] # "/"

\* The places <<node, position>> of the tree that hold the entry of record i.
Places(i) ==
    { kj \in (1..Len(tree)) \X (1..Len(listed)) :
        /\ kj[2] <= Len(tree[kj[1]].files)
        /\ tree[kj[1]].files[kj[2]].id = i }

\* C1: the number of file entries, summed over all nodes of the tree, is the
\* number of listed records whose key is not null.
C1_EntryCount == TotalFiles(tree) = Cardinality(Keyed)

\* Reached: a listing with a null key, a key with an empty component and the
\* same key twice has been collected.
C1_Witness ==
    /\ pc = "generate_output"
    /\ Len(listed) = 3
    /\ listed[1].name = None
    /\ listed[2].name = <<"a", "/", "/", "b">>
    /\ listed[3].name = listed[2].name
    /\ TotalFiles(tree) = 2

\* C2: the entry of every keyed record lies at one place of the tree: in the
\* node whose path is the key's components but the last, under the name of
\* the last component (the path and the name, joined by the separator, give
\* the key back, and none of them holds a separator); every node is reached
\* from the root; a node's files are in the order their records arrived.
C2_Placement ==
    /\ \A i \in Keyed :
          /\ Cardinality(Places(i)) = 1
          /\ \A kj \in Places(i) :
                LET n == tree[kj[1]]
                    e == n.files[kj[2]]
                IN  /\ SlashJoin(Append(n.path, e.name)) = listed[i].name
                    /\ NoSep(e.name)
                    /\ \A c \in 1..Len(n.path) : NoSep(n.path[c])
                    /\ e.size = listed[i].size
    /\ \A k \in 1..Len(tree) :
          /\ \A m \in 0..(Len(tree[k].path) - 1) :
                HasNode(tree, SubSeq(tree[k].path, 1, m))
          /\ \A l \in 1..Len(tree) : tree[l].path = tree[k].path => l = k
          /\ \A i, j \in 1..Len(tree[k].files) :
                i < j => tree[k].files[i].id < tree[k].files[j].id

\* Reached: a/b/c is collected between two records of a/b; the node a/b holds
\* c, the node a holds b twice, in arrival order.
C2_Witness ==
    /\ pc = "generate_output"
    /\ Len(listed) = 3
    /\ listed[1].name = <<"a", "/", "b">>
    /\ listed[2].name = <<"a", "/", "b", "/", "c">>
    /\ listed[3].name = <<"a", "/", "b">>
    /\ HasNode(tree, << <<"a">>, <<"b">> >>)
    /\ Node(tree, << <<"a">>, <<"b">> >>).files = << [id |-> 2, name |-> <<"c">>, size |-> listed[2].size] >>
    /\ Len(Node(tree, << <<"a">> >>).files) = 2

\* The pages the HTML call wrote for the node at path p.
PagesOf(p) == { i \in 1..Len(written) : written[i].node = p }

Rows(page, kind) ==
    LET OfKind(r) == r.kind = kind
    IN  SelectSeq(page.rows, OfKind)

\* C3: after an HTML run, every subdirectory has written its page, and the
\* page of its parent holds a row for it exactly when the subdirectory holds
\* a file entry itself or list_zero_sized is set.
C3_DirectoryRow ==
    (call.type = "html") =>
        \A k \in 2..Len(tree) :
            LET n       == tree[k]
                parent  == SubSeq(n.path, 1, Len(n.path) - 1)
                dirname == n.path[Len(n.path)]
            IN  /\ PagesOf(n.path) # {}
                /\ \A i \in PagesOf(parent) :
                      LET dirs == Rows(written[i], "dir")
                          mine == { r \in 1..Len(dirs) : dirs[r].name = dirname \o <<"/">> }
                      IN  IF Len(n.files) # 0 \/ call.cfg.list_zero_sized
                          THEN /\ Cardinality(mine) = 1
                               /\ \A r \in mine : dirs[r].size = Len(n.files)
                          ELSE mine = {}

\* Reached: only a/b/c, of size 0, is listed and zero-sized entries are not:
\* a, holding no file, has no row on the root's page but has its page; a/b,
\* holding one file of size 0, has a row on a's page.
C3_Witness ==
    /\ call.type = "html"
    /\ ~call.cfg.list_zero_sized
    /\ listed = << [name |-> <<"a", "/", "b", "/", "c">>, size |-> 0] >>
    /\ \E i \in PagesOf(<<>>) : written[i].rows = <<>>
    /\ \E i \in PagesOf(<< <<"a">> >>) :
          /\ Len(written[i].rows) = 1
          /\ written[i].rows[1].kind = "dir"
    /\ PagesOf(<< <<"a">>, <<"b">> >>) # {}

\* C4: on every page of an HTML run, the file rows are the node's entries but
\* those of size 0 when list_zero_sized is not set, each once; they ascend by
\* the sort key, equal keys in arrival order, and with reverse_files they
\* descend, equal keys in reversed arrival order.
C4_FileRows ==
    (call.type = "html") =>
        \A w \in 1..Len(written) :
            LET h     == call.cfg
                files == Node(tree, written[w].node).files
                rows  == Rows(written[w], "file")
                kept  == { j \in 1..Len(files) :
                             ~(files[j].size = 0 /\ ~h.list_zero_sized) }
            IN  /\ Len(rows) = Cardinality(kept)
                /\ \A j \in kept : \E r \in 1..Len(rows) :
                      /\ rows[r].id = files[j].id
                      /\ rows[r].name = files[j].name
                      /\ rows[r].size = files[j].size
                /\ \A r, q \in 1..Len(rows) :
                      r < q =>
                        LET first == IF h.reverse_files THEN rows[q] ELSE rows[r]
                            last  == IF h.reverse_files THEN rows[r] ELSE rows[q]
                        IN  /\ ~KeyLess(h.file_sort_key, last, first)
                            /\ ~KeyLess(h.file_sort_key, first, last)
                                  => first.id < last.id

\* Reached: b, a (both of size 1) and a of size 0 are listed, sorted by size
\* and reversed, zero-sized entries not listed: the rows are a, b.
C4_Witness ==
    /\ call.type = "html"
    /\ call.cfg = [list_zero_sized |-> FALSE, file_sort_key |-> "size",
                   reverse_files |-> TRUE]
    /\ listed = << [name |-> <<"b">>, size |-> 1], [name |-> <<"a">>, size |-> 1],
                   [name |-> <<"a">>, size |-> 0] >>
    /\ \E i \in PagesOf(<<>>) :
          /\ Len(written[i].rows) = 2
          /\ written[i].rows[1].id = 2
          /\ written[i].rows[2].id = 1

\* C5: a run that got past start-up ends with every configured target, all
\* of them of a known type, rendered once, in order.
C5_AllTargetsRendered ==
    ( /\ pc = "exit"
      /\ \A i \in 1..Len(stderr) : stderr[i] \notin StartupFailures
      /\ \A i \in 1..Len(config.output) : config.output[i].type \in targets )
    => rendered = [i \in 1..Len(config.output) |-> config.output[i].name]

\* C6: a run that got past start-up with a target of a missing or unknown
\* type ends with the diagnostic of that target on the error stream and a
\* non-zero status, and has rendered no target that follows it.
C6_UnknownTypeIsFatal ==
    \A i \in 1..Len(config.output) :
        ( /\ pc = "exit"
          /\ \A m \in 1..Len(stderr) : stderr[m] \notin StartupFailures
          /\ config.output[i].type \notin targets
          /\ \A j \in 1..(i - 1) : config.output[j].type \in targets )
        => /\ status > 0
           /\ \E m \in 1..Len(stderr) : stderr[m] = UnknownType(config.output[i].name)
           /\ \A j \in i..Len(config.output) :
                 \A r \in 1..Len(rendered) : rendered[r] # config.output[j].name

\* C7: no renderer call changes the tree.
C7_TreeUnchanged == [][tree' = tree]_vars

\* Reached: an HTML call has returned on a tree with a subdirectory whose
\* root files are not in name order.
C7_Witness ==
    /\ pc = "returned"
    /\ call.type = "html"
    /\ call.cfg.file_sort_key = "name"
    /\ Len(tree) > 1
    /\ Len(tree[1].files) = 2
    /\ StrLess(tree[1].files[2].name, tree[1].files[1].name)

\* C8: the result of file_url holds no two slashes in a row.
C8_NoDoubleSlash ==
    (pc = "returned") =>
        \A i \in 1..(Len(url.result) - 1) :
            ~(url.result[i] = "/" /\ url.result[i + 1] = "/")

RECURSIVE ParseJson(_, _)
RECURSIVE ParseJsonDirs(_, _, _)

ParseJsonDirs(ds, p, i) ==
    IF i > Len(ds) THEN {}
    ELSE ParseJson(ds[i].children, Append(p, ds[i].name))
         \cup ParseJsonDirs(ds, p, i + 1)

\* The directories a JSON document describes, each with the names and sizes
\* of its files in document order.
ParseJson(doc, p) ==
    { [path |-> p,
       files |-> [i \in 1..Len(doc.fs) |->
                     [name |-> doc.fs[i].name, size |-> doc.fs[i].size]]] }
    \cup ParseJsonDirs(doc.ds, p, 1)

RECURSIVE CountDs(_)
RECURSIVE CountDsFrom(_, _)

CountDsFrom(ds, i) ==
    IF i > Len(ds) THEN 0 ELSE 1 + CountDs(ds[i].children) + CountDsFrom(ds, i + 1)

\* The 'ds' items of a JSON document, at every depth.
CountDs(doc) == CountDsFrom(doc.ds, 1)

NamesAndSizes(t) ==
    { [path |-> t[k].path,
       files |-> [i \in 1..Len(t[k].files) |->
                     [name |-> t[k].files[i].name, size |-> t[k].files[i].size]]]
      : k \in 1..Len(t) }

IsPrefix(p, q) == Len(p) <= Len(q) /\ SubSeq(q, 1, Len(p)) = p

\* The path of the node that holds the entry of record i.
HolderOf(i) == tree[(CHOOSE kj \in Places(i) : TRUE)[1]].path

\* C9: the JSON document, read back, gives the tree's directories with the
\* names and sizes of all their files, and as many 'ds' items as there are
\* subdirectories; the text output has one row for every entry of the tree,
\* and rows of a node's own files come before those of the directories
\* below it.
C9_NoFiltering ==
    /\ (call.type = "json") =>
          /\ ParseJson(written[1].doc, <<>>) = NamesAndSizes(tree)
          /\ CountDs(written[1].doc) = Len(tree) - 1
    /\ (call.type = "txt") =>
          LET rows == written[1].rows
          IN  /\ Len(rows) = TotalFiles(tree)
              /\ \A i \in Keyed : \E r \in 1..Len(rows) : rows[r].id = i
              /\ \A r, q \in 1..Len(rows) :
                    /\ HolderOf(rows[q].id) # HolderOf(rows[r].id)
                    /\ IsPrefix(HolderOf(rows[r].id), HolderOf(rows[q].id))
                    => r < q

\* Reached: a text call on a tree where a/b/c arrived before the zero-sized
\* root file a: the row of a comes first.
C9_Witness ==
    /\ call.type = "txt"
    /\ listed = << [name |-> <<"a", "/", "b", "/", "c">>, size |-> 1],
                   [name |-> <<"a">>, size |-> 0] >>
    /\ Len(written[1].rows) = 2
    /\ written[1].rows[1].id = 2

\* C10: in an HTML run no two nodes write the same file, and a node writes
\* its page after all the nodes below it.
C10_OnePagePerNode ==
    (call.type = "html") =>
        /\ \A k \in 1..Len(tree) : PagesOf(tree[k].path) # {}
        /\ \A i, j \in 1..Len(written) :
              i # j => written[i].file # written[j].file
        /\ \A i, j \in 1..Len(written) :
              /\ written[i].node # written[j].node
              /\ IsPrefix(written[i].node, written[j].node)
              => j < i

====
